---- MODULE Spec2Model ----
(***************************************************************************)
(* Typed accessors over the lossless syntax tree of mun_syntax:            *)
(* crates/mun_syntax/src/ast/expr_extensions.rs.                           *)
(*                                                                         *)
(* A syntax element is a record                                            *)
(*     [tok, kind, len, kids]                                              *)
(* tok  : TRUE for a token, FALSE for a node                               *)
(* kind : its SyntaxKind                                                   *)
(* len  : the length of its text                                           *)
(* kids : the children (nodes and tokens interleaved), <<>> for a token    *)
(* A child is identified by its position in kids (1-based); 0 stands for   *)
(* an absent child inside a pair.                                          *)
(***************************************************************************)
EXTENDS Integers, Sequences, FiniteSets, TLC

VARIABLES root, base, path, call, result, walk

vars == <<root, base, path, call, result, walk>>

(***************************************************************************)
(* Bounds of the model.                                                    *)
(***************************************************************************)
MaxKids == 3

MaxLen == 2

MaxStart == 1

MaxIfKids == 2

MaxDepth == 2

(***************************************************************************)
(* Results: Option / tuple / TextRange / panic, in one record shape.       *)
(***************************************************************************)
Res(t, i, j, o, f, e) == [tag |-> t, idx |-> i, idx2 |-> j, op |-> o, from |-> f, to |-> e]

None == Res("None", 0, 0, "", 0, 0)

Panic == Res("Panic", 0, 0, "", 0, 0)

SomeIdx(i) == Res("Some", i, 0, "", 0, 0)

SomeOp(o) == Res("Some", 0, 0, o, 0, 0)

SomeTokOp(i, o) == Res("Some", i, 0, o, 0, 0)

Tagged(t, i) == Res(t, i, 0, "", 0, 0)

Pair(a, b) == Res("Pair", a.idx, b.idx, "", 0, 0)

Range(f, e) == Res("Range", 0, 0, "", f, e)

(***************************************************************************)
(* The tree substrate (rowan) as the accessors use it.                     *)
(***************************************************************************)
Tok(k, l) == [tok |-> TRUE, kind |-> k, len |-> l, kids |-> <<>>]

Leaf(k, l) == [tok |-> FALSE, kind |-> k, len |-> l, kids |-> <<>>]

RECURSIVE SumLen(_)
SumLen(ks) == IF ks = <<>> THEN 0 ELSE Head(ks).len + SumLen(Tail(ks))

MkNode(k, ks) == [tok |-> FALSE, kind |-> k, len |-> SumLen(ks), kids |-> ks]

\* SyntaxNode::children_with_tokens: every child, in source order
children_with_tokens(n) == [i \in 1..Len(n.kids) |-> i]

\* SyntaxNode::first_child_or_token
first_child_or_token(n) == IF n.kids = <<>> THEN None ELSE SomeIdx(1)

\* SyntaxElement::into_token
into_token(n, i) == IF n.kids[i].tok THEN SomeIdx(i) ELSE None

\* text_range().start() of child i of a node starting at s
child_start(n, s, i) == s + SumLen(SubSeq(n.kids, 1, i - 1))

\* text_range().end() of child i of a node starting at s
child_end(n, s, i) == child_start(n, s, i) + n.kids[i].len

\* TextRange::from_to asserts start <= end
from_to(f, e) == IF f <= e THEN Range(f, e) ELSE Panic

\* SyntaxKind::is_trivia
is_trivia(k) == k \in {"WHITESPACE", "COMMENT"}

\* the node kinds ast::Expr::cast accepts
ExprKinds == {"LITERAL", "PREFIX_EXPR", "PATH_EXPR", "BIN_EXPR", "FIELD_EXPR", "IF_EXPR", "BLOCK_EXPR"}

\* ast::children::<T>: the child nodes (tokens skipped) whose kind T::cast accepts
children(n, Kinds) == SelectSeq(children_with_tokens(n), LAMBDA i : ~n.kids[i].tok /\ n.kids[i].kind \in Kinds)

\* Iterator::next
next(it) == IF it = <<>> THEN None ELSE SomeIdx(Head(it))

\* Iterator::nth(1)
nth1(it) == IF Len(it) < 2 THEN None ELSE SomeIdx(it[2])

\* ast::child_opt::<T>
child_opt(n, Kinds) == next(children(n, Kinds))

\* children_with_tokens().find(|e| e.kind() == k)
find_kind(n, k) == next(SelectSeq(children_with_tokens(n), LAMBDA i : n.kids[i].kind = k))

\* children_with_tokens().find(|e| !e.kind().is_trivia())
find_non_trivia(n) == next(SelectSeq(children_with_tokens(n), LAMBDA i : ~is_trivia(n.kids[i].kind)))

(***************************************************************************)
(* impl ast::PrefixExpr                                                    *)
(***************************************************************************)
\* variant: the first token among the children, wherever it stands
PrefixExpr_op_token_any(n) ==
    next(SelectSeq(children_with_tokens(n), LAMBDA i : n.kids[i].tok))

PrefixExpr_op_token(n) ==
    LET f == first_child_or_token(n)
    IN  IF f.tag = "None" THEN None ELSE into_token(n, f.idx)

PrefixExpr_op_kind(n) ==
    LET t == PrefixExpr_op_token(n)
    IN  IF t.tag = "None" THEN None
        ELSE CASE n.kids[t.idx].kind = "EXCLAMATION" -> SomeOp("Not")
               [] n.kids[t.idx].kind = "MINUS" -> SomeOp("Neg")
               [] OTHER -> None

(***************************************************************************)
(* impl BinExpr                                                            *)
(***************************************************************************)
\* variant: the commented-out PERCENT arm enabled
BinOpOf_remainder(k) ==
    CASE k = "PLUS" -> "Add"
      [] k = "MINUS" -> "Subtract"
      [] k = "SLASH" -> "Divide"
      [] k = "STAR" -> "Multiply"
      [] k = "PERCENT" -> "Remainder"
      [] k = "EQ" -> "Assign"
      [] k = "PLUSEQ" -> "AddAssign"
      [] k = "MINUSEQ" -> "SubtractAssign"
      [] k = "SLASHEQ" -> "DivideAssign"
      [] k = "STAREQ" -> "MultiplyAssign"
      [] k = "EQEQ" -> "Equals"
      [] k = "NEQ" -> "NotEquals"
      [] k = "LT" -> "Less"
      [] k = "LTEQ" -> "LessEqual"
      [] k = "GT" -> "Greater"
      [] k = "GTEQ" -> "GreatEqual"
      [] OTHER -> ""

\* the match of op_details: "" stands for the `_ => None` arm
BinOpOf(k) ==
    CASE k = "PLUS" -> "Add"
      [] k = "MINUS" -> "Subtract"
      [] k = "SLASH" -> "Divide"
      [] k = "STAR" -> "Multiply"
      [] k = "EQ" -> "Assign"
      [] k = "PLUSEQ" -> "AddAssign"
      [] k = "MINUSEQ" -> "SubtractAssign"
      [] k = "SLASHEQ" -> "DivideAssign"
      [] k = "STAREQ" -> "MultiplyAssign"
      [] k = "EQEQ" -> "Equals"
      [] k = "NEQ" -> "NotEquals"
      [] k = "LT" -> "Less"
      [] k = "LTEQ" -> "LessEqual"
      [] k = "GT" -> "Greater"
      [] k = "GTEQ" -> "GreatEqual"
      [] OTHER -> ""

\* find_map over the tokens, in order
RECURSIVE find_map_op(_, _)
find_map_op(n, toks) ==
    IF toks = <<>> THEN None
    ELSE LET c == Head(toks)
         IN  IF BinOpOf(n.kids[c].kind) # "" THEN SomeTokOp(c, BinOpOf(n.kids[c].kind))
             ELSE find_map_op(n, Tail(toks))

BinExpr_op_details(n) ==
    find_map_op(n, SelectSeq(children_with_tokens(n), LAMBDA i : into_token(n, i).tag = "Some"))

BinExpr_op_kind(n) ==
    LET t == BinExpr_op_details(n) IN IF t.tag = "None" THEN None ELSE SomeOp(t.op)

BinExpr_op_token(n) ==
    LET t == BinExpr_op_details(n) IN IF t.tag = "None" THEN None ELSE SomeIdx(t.idx)

BinExpr_lhs(n) == next(children(n, ExprKinds))

\* variant: the last expression child instead of the second
BinExpr_rhs_last(n) ==
    LET it == children(n, ExprKinds) IN IF it = <<>> THEN None ELSE SomeIdx(it[Len(it)])

BinExpr_rhs(n) == nth1(children(n, ExprKinds))

BinExpr_sub_exprs(n) ==
    LET it0 == children(n, ExprKinds)
        first == next(it0)
        it1 == IF it0 = <<>> THEN it0 ELSE Tail(it0)
        second == next(it1)
    IN  Pair(first, second)

(***************************************************************************)
(* impl ast::FieldExpr                                                     *)
(***************************************************************************)
\* generated accessor FieldExpr::name_ref
name_ref(n) == child_opt(n, {"NAME_REF"})

FieldExpr_index_token(n) ==
    LET e == find_kind(n, "INDEX")
    IN  IF e.tag = "None" THEN None ELSE into_token(n, e.idx)

\* variant: the index token is looked up before the name reference
FieldExpr_field_access_index_first(n) ==
    LET nr == name_ref(n)
        tok == FieldExpr_index_token(n)
    IN  IF tok.tag = "Some" THEN Tagged("Index", tok.idx)
        ELSE IF nr.tag = "Some" THEN Tagged("Name", nr.idx)
        ELSE None

FieldExpr_field_access(n) ==
    LET nr == name_ref(n)
        tok == FieldExpr_index_token(n)
    IN  IF nr.tag = "Some" THEN Tagged("Name", nr.idx)
        ELSE IF tok.tag = "Some" THEN Tagged("Index", tok.idx)
        ELSE None

\* variant: the index token's own start, separator included
field_range_start_at_token(n, s) ==
    LET nr == name_ref(n)
        tok == FieldExpr_index_token(n)
    IN  IF nr.tag = "Some" THEN child_start(n, s, nr.idx)
        ELSE IF tok.tag = "Some" THEN child_start(n, s, tok.idx)
        ELSE s

\* variant: two text units skipped after the index token's start
field_range_start_skip_two(n, s) ==
    LET nr == name_ref(n)
        tok == FieldExpr_index_token(n)
    IN  IF nr.tag = "Some" THEN child_start(n, s, nr.idx)
        ELSE IF tok.tag = "Some" THEN child_start(n, s, tok.idx) + 2
        ELSE s

\* `start` of field_range
field_range_start(n, s) ==
    LET nr == name_ref(n)
        tok == FieldExpr_index_token(n)
    IN  IF nr.tag = "Some" THEN child_start(n, s, nr.idx)
        ELSE IF tok.tag = "Some" THEN child_start(n, s, tok.idx) + 1
        ELSE s

\* variant: the last fallback is the node's start, giving an empty range
field_range_end_at_start(n, s) ==
    LET nr == name_ref(n)
        tok == FieldExpr_index_token(n)
    IN  IF nr.tag = "Some" THEN child_end(n, s, nr.idx)
        ELSE IF tok.tag = "Some" THEN child_end(n, s, tok.idx)
        ELSE s

\* `end` of field_range
field_range_end(n, s) ==
    LET nr == name_ref(n)
        tok == FieldExpr_index_token(n)
    IN  IF nr.tag = "Some" THEN child_end(n, s, nr.idx)
        ELSE IF tok.tag = "Some" THEN child_end(n, s, tok.idx)
        ELSE s + n.len

FieldExpr_field_range(n, s) == from_to(field_range_start(n, s), field_range_end(n, s))

(***************************************************************************)
(* impl Literal                                                            *)
(***************************************************************************)
\* the first non-trivia child, .and_then(into_token).unwrap()
Literal_token(n) ==
    LET e == find_non_trivia(n)
        t == IF e.tag = "None" THEN None ELSE into_token(n, e.idx)
    IN  IF t.tag = "None" THEN Panic ELSE t

\* variant: the last arm classifies instead of panicking
Literal_kind_default_bool(n) ==
    LET t == Literal_token(n)
    IN  IF t.tag = "Panic" THEN Panic
        ELSE CASE n.kids[t.idx].kind = "STRING" -> SomeOp("String")
               [] n.kids[t.idx].kind = "FLOAT_NUMBER" -> SomeOp("FloatNumber")
               [] n.kids[t.idx].kind = "INT_NUMBER" -> SomeOp("IntNumber")
               [] OTHER -> SomeOp("Bool")

Literal_kind(n) ==
    LET t == Literal_token(n)
    IN  IF t.tag = "Panic" THEN Panic
        ELSE CASE n.kids[t.idx].kind = "STRING" -> SomeOp("String")
               [] n.kids[t.idx].kind = "FLOAT_NUMBER" -> SomeOp("FloatNumber")
               [] n.kids[t.idx].kind = "INT_NUMBER" -> SomeOp("IntNumber")
               [] n.kids[t.idx].kind \in {"TRUE_KW", "FALSE_KW"} -> SomeOp("Bool")
               [] OTHER -> Panic

(***************************************************************************)
(* impl ast::IfExpr                                                        *)
(***************************************************************************)
blocks(n) == children(n, {"BLOCK_EXPR"})

IfExpr_then_branch(n) == next(blocks(n))

\* variant: the nested conditional is looked up before the second block
IfExpr_else_branch_elif_first(n) ==
    LET b == nth1(blocks(n))
        elif == child_opt(n, {"IF_EXPR"})
    IN  IF elif.tag = "Some" THEN Tagged("IfExpr", elif.idx)
        ELSE IF b.tag = "Some" THEN Tagged("Block", b.idx)
        ELSE None

\* variant: the else-if is the first child node, whatever its kind
IfExpr_else_branch_any_node(n) ==
    LET b == nth1(blocks(n))
        elif == next(SelectSeq(children_with_tokens(n), LAMBDA i : ~n.kids[i].tok))
    IN  IF b.tag = "Some" THEN Tagged("Block", b.idx)
        ELSE IF elif.tag = "None" THEN None
        ELSE Tagged("IfExpr", elif.idx)

IfExpr_else_branch(n) ==
    LET b == nth1(blocks(n))
        elif == child_opt(n, {"IF_EXPR"})
    IN  IF b.tag = "Some" THEN Tagged("Block", b.idx)
        ELSE IF elif.tag = "None" THEN None
        ELSE Tagged("IfExpr", elif.idx)

(***************************************************************************)
(* The trees the accessors are queried on.                                 *)
(***************************************************************************)
SeqsUpTo(S, m) == UNION {[1..k -> S] : k \in 0..m}

WrapperKinds == {"PREFIX_EXPR", "BIN_EXPR", "FIELD_EXPR", "LITERAL", "IF_EXPR"}

\* the operator tokens, by family: a binary node is drawn with the tokens of one
OperatorFamilies ==
    {{"PLUS", "MINUS", "SLASH", "STAR", "PERCENT"},
     {"EQ", "PLUSEQ", "MINUSEQ", "SLASHEQ", "STAREQ", "CARETEQ"},
     {"EQEQ", "NEQ", "LT", "LTEQ", "GT", "GTEQ", "CARET", "PERCENTEQ"}}

\* the token kinds a node of kind k is drawn with: one set per drawing
TokenKinds(k) ==
    CASE k = "PREFIX_EXPR" -> {{"EXCLAMATION", "MINUS", "PLUS", "WHITESPACE"}}
      [] k = "BIN_EXPR" -> {F \cup {"WHITESPACE"} : F \in OperatorFamilies}
      [] k = "FIELD_EXPR" -> {{"INDEX", "WHITESPACE"}}
      [] k = "LITERAL" -> {{"WHITESPACE", "COMMENT", "STRING", "INT_NUMBER", "FLOAT_NUMBER",
                            "TRUE_KW", "FALSE_KW", "IDENT"}}
      [] k = "IF_EXPR" -> {{"ELSE_KW"}}

NodeKinds(k) ==
    CASE k = "PREFIX_EXPR" -> {"LITERAL", "PREFIX_EXPR"}
      [] k = "BIN_EXPR" -> {"LITERAL", "ERROR"}
      [] k = "FIELD_EXPR" -> {"NAME_REF", "PATH_EXPR"}
      [] k = "LITERAL" -> {"ERROR"}
      [] k = "IF_EXPR" -> {"BLOCK_EXPR", "IF_EXPR", "CONDITION"}

\* text lengths: a token is never empty, a node may be; only FieldExpr reads ranges
TokenLens(k) == IF k = "FIELD_EXPR" THEN 1..MaxLen ELSE {1}

NodeLens(k) == IF k = "FIELD_EXPR" THEN 0..MaxLen ELSE {1}

Starts(k) == IF k = "FIELD_EXPR" THEN 0..MaxStart ELSE {0}

Elements(k, toks) ==
    {Tok(t, l) : t \in toks, l \in TokenLens(k)} \cup
    {Leaf(t, l) : t \in NodeKinds(k), l \in NodeLens(k)}

\* a conditional whose children follow `shape`, each nested conditional being t
IfNode(shape, t) ==
    MkNode("IF_EXPR",
           [i \in 1..Len(shape) |->
               CASE shape[i] = "B" -> Leaf("BLOCK_EXPR", 1)
                 [] shape[i] = "T" -> Tok("ELSE_KW", 1)
                 [] shape[i] = "I" -> t])

IfShapes == SeqsUpTo({"B", "T", "I"}, MaxIfKids)

\* the conditionals nested at most d deep; below depth d a conditional has no children
RECURSIVE IfTrees(_)
IfTrees(d) ==
    IF d = 0 THEN {MkNode("IF_EXPR", <<>>)}
    ELSE {IfNode(sh, MkNode("IF_EXPR", <<>>)) : sh \in {x \in IfShapes : \A i \in 1..Len(x) : x[i] # "I"}} \cup
         {IfNode(sh, t) : sh \in {x \in IfShapes : \E i \in 1..Len(x) : x[i] = "I"}, t \in IfTrees(d - 1)}

\* the node at `p` (child positions from the root)
RECURSIVE At(_, _)
At(n, p) == IF p = <<>> THEN n ELSE At(n.kids[Head(p)], Tail(p))

cur == At(root, path)

(***************************************************************************)
(* The accessors as operations on the wrapped node.                        *)
(***************************************************************************)
Init ==
    /\ \E k \in WrapperKinds : \E toks \in TokenKinds(k) :
            \E ks \in SeqsUpTo(Elements(k, toks), MaxKids) : root = MkNode(k, ks)
    /\ base \in Starts(root.kind)
    /\ path = <<>>
    /\ call = "none"
    /\ result = None
    /\ walk = "Idle"

Query(kind, name, r) ==
    /\ cur.kind = kind
    /\ call' = name
    /\ result' = r
    /\ UNCHANGED <<root, base, path, walk>>

PrefixOpKind == Query("PREFIX_EXPR", "PrefixExpr::op_kind", PrefixExpr_op_kind(cur))

PrefixOpToken == Query("PREFIX_EXPR", "PrefixExpr::op_token", PrefixExpr_op_token(cur))

BinOpDetails == Query("BIN_EXPR", "BinExpr::op_details", BinExpr_op_details(cur))

BinOpKind == Query("BIN_EXPR", "BinExpr::op_kind", BinExpr_op_kind(cur))

BinOpToken == Query("BIN_EXPR", "BinExpr::op_token", BinExpr_op_token(cur))

BinLhs == Query("BIN_EXPR", "BinExpr::lhs", BinExpr_lhs(cur))

BinRhs == Query("BIN_EXPR", "BinExpr::rhs", BinExpr_rhs(cur))

BinSubExprs == Query("BIN_EXPR", "BinExpr::sub_exprs", BinExpr_sub_exprs(cur))

FieldIndexToken == Query("FIELD_EXPR", "FieldExpr::index_token", FieldExpr_index_token(cur))

FieldAccess == Query("FIELD_EXPR", "FieldExpr::field_access", FieldExpr_field_access(cur))

FieldRange == Query("FIELD_EXPR", "FieldExpr::field_range", FieldExpr_field_range(cur, base))

LiteralToken == Query("LITERAL", "Literal::token", Literal_token(cur))

LiteralKind == Query("LITERAL", "Literal::kind", Literal_kind(cur))

IfThenBranch == Query("IF_EXPR", "IfExpr::then_branch", IfExpr_then_branch(cur))

IfElseBranch == Query("IF_EXPR", "IfExpr::else_branch", IfExpr_else_branch(cur))

Next ==
    \/ PrefixOpKind
    \/ PrefixOpToken
    \/ BinOpDetails
    \/ BinOpKind
    \/ BinOpToken
    \/ BinLhs
    \/ BinRhs
    \/ BinSubExprs
    \/ FieldIndexToken
    \/ FieldAccess
    \/ FieldRange
    \/ LiteralToken
    \/ LiteralKind
    \/ IfThenBranch
    \/ IfElseBranch

Spec == Init /\ [][Next]_vars

(***************************************************************************)
(* Walking an else-if chain: else_branch applied again to each nested      *)
(* conditional it returns.                                                 *)
(***************************************************************************)
WalkInit ==
    /\ root \in IfTrees(MaxDepth)
    /\ base = 0
    /\ path = <<>>
    /\ call = "none"
    /\ result = None
    /\ walk = "NoElse"

\* one application of else_branch to the current conditional
WalkStep ==
    /\ walk \in {"NoElse", "ElseIf"}
    /\ LET r == IfExpr_else_branch(cur)
       IN  /\ call' = "IfExpr::else_branch"
           /\ result' = r
           /\ walk' = CASE r.tag = "Block" -> "ElseBlock"
                        [] r.tag = "IfExpr" -> "ElseIf"
                        [] OTHER -> "End"
           /\ path' = IF r.tag = "IfExpr" THEN Append(path, r.idx) ELSE path
    /\ UNCHANGED <<root, base>>

WalkNext == WalkStep

WalkSpec == WalkInit /\ [][WalkNext]_vars /\ WF_vars(WalkStep)

(***************************************************************************)
(* Vocabulary of the properties: the children of the queried node, read    *)
(* off the tree directly.                                                  *)
(***************************************************************************)
Kids == cur.kids

Positions == 1..Len(Kids)

Min(S) == CHOOSE x \in S : \A y \in S : x <= y

TokensOf(Ks) == {i \in Positions : Kids[i].tok /\ Kids[i].kind \in Ks}

NodesOf(Ks) == {i \in Positions : ~Kids[i].tok /\ Kids[i].kind \in Ks}

NonTrivia == {i \in Positions : Kids[i].kind \notin {"WHITESPACE", "COMMENT"}}

\* the offset at which child i starts
RECURSIVE Offset(_)
Offset(i) == IF i = 1 THEN base ELSE Offset(i - 1) + Kids[i - 1].len

OperatorTable ==
    [PLUS |-> "Add", MINUS |-> "Subtract", SLASH |-> "Divide", STAR |-> "Multiply",
     EQ |-> "Assign", PLUSEQ |-> "AddAssign", MINUSEQ |-> "SubtractAssign",
     SLASHEQ |-> "DivideAssign", STAREQ |-> "MultiplyAssign", EQEQ |-> "Equals",
     NEQ |-> "NotEquals", LT |-> "Less", LTEQ |-> "LessEqual", GT |-> "Greater",
     GTEQ |-> "GreatEqual"]

NoField == NodesOf({"NAME_REF"}) = {} /\ TokensOf({"INDEX"}) = {}

C2_NoAccessorPanics == result.tag # "Panic"

(***************************************************************************)
(* C2 (amended): every accessor of the prefix, binary, field and           *)
(* conditional wrappers returns a value or no-result and never panics;     *)
(* Literal::token panics exactly when the literal node has no non-trivia   *)
(* child or its first non-trivia child is a node, and Literal::kind panics *)
(* exactly then or when that token is none of STRING, INT_NUMBER,          *)
(* FLOAT_NUMBER, true, false.                                              *)
(***************************************************************************)
C2_OnlyLiteralPanics ==
    LET noToken == NonTrivia = {} \/ ~Kids[Min(NonTrivia)].tok
    IN  /\ call \notin {"Literal::token", "Literal::kind"} => result.tag # "Panic"
        /\ call = "Literal::token" => (result.tag = "Panic" <=> noToken)
        /\ call = "Literal::kind" =>
                (result.tag = "Panic" <=>
                    \/ noToken
                    \/ Kids[Min(NonTrivia)].kind \notin
                            {"STRING", "INT_NUMBER", "FLOAT_NUMBER", "TRUE_KW", "FALSE_KW"})

C2_Witness ==
    /\ call = "FieldExpr::field_range"
    /\ NodesOf({"NAME_REF"}) = {}
    /\ \E i \in TokensOf({"INDEX"}) : Kids[i].len = 1
    /\ result.tag = "Range"
    /\ result.from = result.to

(***************************************************************************)
(* C3: op_details returns the first child token whose kind is in the       *)
(* operator table, with the BinOp the table gives it; tokens of other      *)
(* kinds and nodes before it are skipped; it is no-result exactly when no  *)
(* child token is in the table; op_kind and op_token are its components.   *)
(***************************************************************************)
C3_FirstTableToken ==
    LET hits == TokensOf(DOMAIN OperatorTable)
        tok == Min(hits)
    IN  /\ call = "BinExpr::op_details" =>
                result = IF hits = {} THEN None ELSE SomeTokOp(tok, OperatorTable[Kids[tok].kind])
        /\ call = "BinExpr::op_kind" =>
                result = IF hits = {} THEN None ELSE SomeOp(OperatorTable[Kids[tok].kind])
        /\ call = "BinExpr::op_token" =>
                result = IF hits = {} THEN None ELSE SomeIdx(tok)

C3_Witness ==
    /\ call = "BinExpr::op_details"
    /\ Len(Kids) = 3
    /\ Kids[1].tok /\ Kids[1].kind = "CARETEQ"
    /\ ~Kids[2].tok
    /\ result = SomeTokOp(3, "SubtractAssign")

(***************************************************************************)
(* C4: lhs is the first and rhs the second child that is an expression     *)
(* node, tokens and other nodes ignored; each is no-result when there are  *)
(* fewer; sub_exprs is the pair (lhs, rhs).                                *)
(***************************************************************************)
C4_Operands ==
    LET exprs == NodesOf(ExprKinds)
        first == IF exprs = {} THEN None ELSE SomeIdx(Min(exprs))
        rest == exprs \ {first.idx}
        second == IF rest = {} THEN None ELSE SomeIdx(Min(rest))
    IN  /\ call = "BinExpr::lhs" => result = first
        /\ call = "BinExpr::rhs" => result = second
        /\ call = "BinExpr::sub_exprs" =>
                /\ result = Pair(first, second)
                /\ result = Pair(BinExpr_lhs(cur), BinExpr_rhs(cur))

C4_Witness ==
    /\ call = "BinExpr::rhs"
    /\ Len(Kids) = 3
    /\ ~Kids[1].tok /\ Kids[1].kind = "ERROR"
    /\ result = SomeIdx(3)

(***************************************************************************)
(* C5: field_access is Name(the first name-reference child) whenever one   *)
(* exists, also beside an INDEX token; otherwise Index(the first INDEX     *)
(* token) when there is one; otherwise no-result.                          *)
(***************************************************************************)
C5_NameBeforeIndex ==
    LET names == NodesOf({"NAME_REF"})
        idxs == TokensOf({"INDEX"})
    IN  /\ call = "FieldExpr::index_token" =>
                result = IF idxs = {} THEN None ELSE SomeIdx(Min(idxs))
        /\ call = "FieldExpr::field_access" =>
                /\ result = IF names # {} THEN Tagged("Name", Min(names))
                            ELSE IF idxs # {} THEN Tagged("Index", Min(idxs))
                            ELSE None
                /\ names # {} => result.tag # "Index"

C5_Witness ==
    /\ call = "FieldExpr::field_access"
    /\ Len(Kids) >= 2
    /\ Kids[1].tok /\ Kids[1].kind = "INDEX"
    /\ result = Tagged("Name", 2)

(***************************************************************************)
(* C6: field_range is the first name-reference child's own range when one  *)
(* exists; otherwise, when an INDEX token exists, it starts one text unit  *)
(* after the token's start and ends at the token's end, with start <= end; *)
(* both bounds come from the same child.                                   *)
(***************************************************************************)
C6_DesignatorRange ==
    LET names == NodesOf({"NAME_REF"})
        idxs == TokensOf({"INDEX"})
    IN  call = "FieldExpr::field_range" =>
            /\ names # {} =>
                    result = Range(Offset(Min(names)), Offset(Min(names)) + Kids[Min(names)].len)
            /\ names = {} /\ idxs # {} =>
                    /\ result = Range(Offset(Min(idxs)) + 1, Offset(Min(idxs)) + Kids[Min(idxs)].len)
                    /\ result.from <= result.to

C6_Witness ==
    /\ call = "FieldExpr::field_range"
    /\ Len(Kids) = 2
    /\ ~Kids[1].tok /\ Kids[1].kind = "PATH_EXPR" /\ Kids[1].len = 1
    /\ Kids[2].tok /\ Kids[2].kind = "INDEX" /\ Kids[2].len = 2
    /\ result = Range(base + 2, base + 3)

(***************************************************************************)
(* C7: else_branch is Block(the second block child) when there are two     *)
(* block children, also beside a nested conditional; otherwise IfExpr(the  *)
(* first conditional child) when there is one; otherwise no-result.        *)
(* then_branch is the first block child or no-result, and never the block  *)
(* else_branch returns.                                                    *)
(***************************************************************************)
C7_Branches ==
    LET bs == NodesOf({"BLOCK_EXPR"})
        ifs == NodesOf({"IF_EXPR"})
        then == IF bs = {} THEN None ELSE SomeIdx(Min(bs))
    IN  /\ call = "IfExpr::then_branch" => result = then
        /\ call = "IfExpr::else_branch" =>
                /\ result = IF Cardinality(bs) >= 2 THEN Tagged("Block", Min(bs \ {Min(bs)}))
                            ELSE IF ifs # {} THEN Tagged("IfExpr", Min(ifs))
                            ELSE None
                /\ result.tag = "Block" => result.idx # IfExpr_then_branch(cur).idx

C7_Witness ==
    /\ call = "IfExpr::else_branch"
    /\ Len(Kids) = 3
    /\ ~Kids[1].tok /\ Kids[1].kind = "IF_EXPR"
    /\ result = Tagged("Block", 3)

(***************************************************************************)
(* C8: PrefixExpr::op_kind is Not when the first child is a `!` token, Neg *)
(* when it is a `-` token, and no-result otherwise (no children, a node    *)
(* first, any other token first, trivia before the operator included);     *)
(* op_token is the first child exactly when it is a token.                 *)
(***************************************************************************)
C8_LeadingToken ==
    LET leading == Kids # <<>> /\ Kids[1].tok
    IN  /\ call = "PrefixExpr::op_token" => result = IF leading THEN SomeIdx(1) ELSE None
        /\ call = "PrefixExpr::op_kind" =>
                result = IF leading /\ Kids[1].kind = "EXCLAMATION" THEN SomeOp("Not")
                         ELSE IF leading /\ Kids[1].kind = "MINUS" THEN SomeOp("Neg")
                         ELSE None

C8_Witness ==
    /\ call = "PrefixExpr::op_kind"
    /\ Len(Kids) >= 2
    /\ Kids[1].tok /\ Kids[1].kind = "WHITESPACE"
    /\ Kids[2].tok /\ Kids[2].kind = "EXCLAMATION"
    /\ result = None

(***************************************************************************)
(* C9: Literal::kind classifies the first non-trivia child when it is a    *)
(* token: STRING String, INT_NUMBER IntNumber, FLOAT_NUMBER FloatNumber,   *)
(* true/false Bool; any other kind ends in the panic and in none of the    *)
(* four categories; leading trivia does not change the result.             *)
(***************************************************************************)
C9_LiteralKind ==
    call = "Literal::kind" /\ NonTrivia # {} /\ Kids[Min(NonTrivia)].tok =>
        LET k == Kids[Min(NonTrivia)].kind
        IN  result = CASE k = "STRING" -> SomeOp("String")
                       [] k = "INT_NUMBER" -> SomeOp("IntNumber")
                       [] k = "FLOAT_NUMBER" -> SomeOp("FloatNumber")
                       [] k \in {"TRUE_KW", "FALSE_KW"} -> SomeOp("Bool")
                       [] OTHER -> Panic

C9_Witness ==
    /\ call = "Literal::kind"
    /\ Len(Kids) = 3
    /\ Kids[1].kind = "WHITESPACE" /\ Kids[2].kind = "COMMENT"
    /\ Kids[3].tok /\ Kids[3].kind = "IDENT"
    /\ result = Panic

(***************************************************************************)
(* C10: walking an else-if chain with else_branch: a step is taken only    *)
(* from NoElse or ElseIf; an IfExpr result moves to a conditional that is  *)
(* a direct child of the node just queried, one level deeper; a Block      *)
(* result or no-result ends the walk; and every walk ends.                 *)
(***************************************************************************)
C10_ChainWalk ==
    /\ [][/\ walk \in {"NoElse", "ElseIf"}
          /\ walk' \in {"ElseIf", "ElseBlock", "End"}
          /\ walk' = "ElseIf" <=> result'.tag = "IfExpr"
          /\ walk' = "ElseBlock" <=> result'.tag = "Block"
          /\ walk' = "ElseIf" =>
                /\ \E i \in Positions :
                      /\ ~Kids[i].tok
                      /\ Kids[i].kind = "IF_EXPR"
                      /\ path' = Append(path, i)
                      /\ cur' = Kids[i]
                /\ Len(path') = Len(path) + 1
          /\ walk' # "ElseIf" => path' = path]_vars
    /\ <>(walk \in {"ElseBlock", "End"})

C10_Witness ==
    /\ walk = "ElseBlock"
    /\ Len(path) >= 1
    /\ result.tag = "Block"

====
